---------------------------- MODULE Spec2Model ----------------------------
(***************************************************************************)
(* PORTAL COMERCIAL service worker (src/sw.js).                            *)
(*                                                                         *)
(* The worker registers four listeners (install, activate, fetch, message) *)
(* and two asynchronous strategies (networkFirst, staleWhileRevalidate).   *)
(* Every `await` and every promise continuation is a suspension point, so  *)
(* each strategy is a small process whose steps interleave with the steps  *)
(* of the other in-flight tasks.  The host (browser) supplies the events,  *)
(* the outcome of every network fetch and the moment it stops an idle      *)
(* worker.                                                                 *)
(***************************************************************************)
EXTENDS Integers, Sequences, FiniteSets, TLC

(* ------------------------------ bounds --------------------------------- *)
\* number of fetch events the host dispatches in a run of one or two kinds of request
MaxFetches == 2
\* number of fetch events the host dispatches in a run of every kind of request
MaxRouted == 1

(* ------------------------- strings as characters ----------------------- *)
\* String.prototype.startsWith
StartsWith(s, prefix) ==
    /\ Len(prefix) <= Len(s)
    /\ SubSeq(s, 1, Len(prefix)) = prefix

\* String.prototype.includes
Includes(s, needle) ==
    \E i \in 1..(Len(s) - Len(needle) + 1) :
        SubSeq(s, i, i + Len(needle) - 1) = needle

PcPrefix == <<"p","c","-">>
TextHtml == <<"t","e","x","t","/","h","t","m","l">>

(* ---------------------------- cache names ------------------------------ *)
VERSION == <<"v","1",".","0",".","0","-","2","0","2","5","-","1","0","-","1","1">>
STATIC_CACHE == <<"p","c","-","s","t","a","t","i","c","-">> \o VERSION
RUNTIME_CACHE == <<"p","c","-","r","u","n","t","i","m","e","-">> \o VERSION

\* caches a previous deployment (another VERSION) left behind
OldVersion == <<"v","0",".","9",".","0">>
OldStaticCache == <<"p","c","-","s","t","a","t","i","c","-">> \o OldVersion
OldRuntimeCache == <<"p","c","-","r","u","n","t","i","m","e","-">> \o OldVersion
\* a cache of the same origin that is not this worker's: "pcdata"
ForeignCache == <<"p","c","d","a","t","a">>

CacheNames == {STATIC_CACHE, RUNTIME_CACHE, OldStaticCache, OldRuntimeCache, ForeignCache}

(* ------------------------------- URLs ---------------------------------- *)
SelfOrigin == "https://portal.example"
CdnOrigin == "https://res.cloudinary.com"

Url(o, p) == [origin |-> o, path |-> p]
\* a relative URL is resolved against the worker's own location
Resolve(p) == Url(SelfOrigin, p)

CORE_ASSETS == <<"./", "./index.html", "./manifest.webmanifest", "./sw.js">>
CoreKeys == {Resolve(CORE_ASSETS[i]) : i \in 1..Len(CORE_ASSETS)}
ShellKey == Resolve("./index.html")

(* ----------------------------- responses ------------------------------- *)
\* JavaScript's `undefined` (no response), in the shape of a response
Undefined == [status |-> -1, statusText |-> "undefined", body |-> "undefined"]
Bodies == {"b1", "b2"}
OkResponse(b) == [status |-> 200, statusText |-> "OK", body |-> b]
NotFound(b) == [status |-> 404, statusText |-> "Not Found", body |-> b]
\* new Response('Sin conexión', { status: 503, statusText: 'Offline' })
Offline503 == [status |-> 503, statusText |-> "Offline", body |-> "Sin conexión"]

\* Response.ok: the status is in the range 200-299
Ok(res) == res.status >= 200 /\ res.status <= 299
\* JavaScript truthiness of a value that is a Response or undefined
Truthy(res) == res # Undefined
\* a copy whose body was already consumed
Clone_Mut(res) == [status |-> res.status, statusText |-> res.statusText, body |-> ""]

\* Response.clone(): a second response with the same status and body
Clone(res) == [status |-> res.status, statusText |-> res.statusText, body |-> res.body]

\* what the network can answer to one fetch: a response, or a rejection
NetResponses == {OkResponse(b) : b \in Bodies} \cup {NotFound("b1")}

(* ------------------------------ requests ------------------------------- *)
AcceptHtml == <<"t","e","x","t","/","h","t","m","l",",","*","/","*">>
AcceptAny == <<"*","/","*">>
AcceptJson == <<"a","p","p","l","i","c","a","t","i","o","n","/","j","s","o","n">>

\* the header name as the router asks for it
AcceptName == <<"a","c","c","e","p","t">>

\* a request: headers is the list of <<name, value>> pairs as the page set them,
\* in order; names and values are sequences of characters
Req(m, u, mode, headers, dest) ==
    [method |-> m, url |-> u, mode |-> mode, headers |-> headers, destination |-> dest]

RNavIndex == Req("GET", Resolve("./index.html"), "navigate", <<<<AcceptName, AcceptHtml>>>>, "document")
RNavPage == Req("GET", Resolve("./pedidos"), "navigate", <<<<AcceptName, AcceptAny>>>>, "document")
RScript == Req("GET", Resolve("./app.js"), "no-cors", <<<<AcceptName, AcceptAny>>>>, "script")
RCdnImage == Req("GET", Url(CdnOrigin, "/logo.png"), "no-cors", <<>>, "image")
RApi == Req("GET", Resolve("./api/data"), "cors", <<<<AcceptName, AcceptJson>>>>, "")
\* a script's fetch that spells the header name Accept
RCdnHtml == Req("GET", Url(CdnOrigin, "/page"), "cors",
                <<<<<<"A","c","c","e","p","t">>, TextHtml>>>>, "")
RPost == Req("POST", Resolve("./api/data"), "cors", <<<<AcceptName, AcceptJson>>>>, "")
RCdnScript == Req("GET", Url(CdnOrigin, "/lib.js"), "no-cors", <<<<AcceptName, AcceptAny>>>>, "script")
RHtmlImage == Req("GET", Resolve("./banner.png"), "cors", <<<<AcceptName, AcceptHtml>>>>, "image")
\* an image request whose accept header was appended twice, the second time
\* as ACCEPT with a padded value
RTwoAccept == Req("GET", Resolve("./banner.png"), "cors",
                  <<<<AcceptName, AcceptAny>>,
                    <<<<"A","C","C","E","P","T">>, <<" ">> \o TextHtml \o <<" ">>>>>>, "image")
\* a page loads the worker's own file as a script: a pre-cached manifest path
\* that the router gives to staleWhileRevalidate on the static cache
RWorker == Req("GET", Resolve("./sw.js"), "no-cors", <<<<AcceptName, AcceptAny>>>>, "script")

Requests == {RNavIndex, RNavPage, RScript, RCdnImage, RApi, RCdnHtml, RPost,
             RCdnScript, RHtmlImage, RTwoAccept}
\* the requests of the runs that exercise one strategy, or one of each
NavRequests == {RNavIndex, RNavPage}
PageRequests == {RNavPage}
SwrRequests == {RScript, RCdnImage}
MixedRequests == {RNavPage, RCdnImage}
RevalidatedRequests == {RWorker}
NoRequest == Req("", Url("", ""), "", <<>>, "")
Keys == CoreKeys \cup {r.url : r \in Requests}

\* byte-lowercasing of a header name: A-Z become a-z
LowerChar(c) ==
    CASE c = "A" -> "a" [] c = "B" -> "b" [] c = "C" -> "c" [] c = "D" -> "d"
      [] c = "E" -> "e" [] c = "F" -> "f" [] c = "G" -> "g" [] c = "H" -> "h"
      [] c = "I" -> "i" [] c = "J" -> "j" [] c = "K" -> "k" [] c = "L" -> "l"
      [] c = "M" -> "m" [] c = "N" -> "n" [] c = "O" -> "o" [] c = "P" -> "p"
      [] c = "Q" -> "q" [] c = "R" -> "r" [] c = "S" -> "s" [] c = "T" -> "t"
      [] c = "U" -> "u" [] c = "V" -> "v" [] c = "W" -> "w" [] c = "X" -> "x"
      [] c = "Y" -> "y" [] c = "Z" -> "z" [] OTHER -> c

Lower(name) == [i \in 1..Len(name) |-> LowerChar(name[i])]

\* HTTP whitespace: space, tab, line feed, carriage return
HttpWhitespace == {" ", "\t", "\n", "\r"}

\* a header value is stored without its leading and trailing HTTP whitespace
RECURSIVE Trim(_)
Trim(v) ==
    IF v = <<>> THEN v
    ELSE IF Head(v) \in HttpWhitespace THEN Trim(Tail(v))
    ELSE IF v[Len(v)] \in HttpWhitespace THEN Trim(SubSeq(v, 1, Len(v) - 1))
    ELSE v

\* the header list has a pair whose name is name, whatever the case
HasHeader(headers, name) ==
    \E i \in 1..Len(headers) : Lower(headers[i][1]) = Lower(name)

\* Headers.get(name) for a header that is present: the trimmed values of the
\* pairs whose name is name in any case, in order, joined with a comma and a space
RECURSIVE HeaderValues(_, _)
HeaderValues(headers, name) ==
    IF headers = <<>> THEN <<>>
    ELSE LET rest == HeaderValues(Tail(headers), name)
         IN  IF Lower(Head(headers)[1]) # Lower(name) THEN rest
             ELSE IF HasHeader(Tail(headers), name)
                  THEN Trim(Head(headers)[2]) \o <<",", " ">> \o rest
                  ELSE Trim(Head(headers)[2])

\* (req.headers.get('accept') || ''): an absent header gives null, which is falsy
AcceptOrEmpty(req) ==
    IF HasHeader(req.headers, AcceptName)
    THEN HeaderValues(req.headers, AcceptName)
    ELSE <<>>

(* --------------------------- the fetch router -------------------------- *)
\* a listener without the method test
ShouldIgnore_Mut(req) == FALSE

\* if (req.method !== 'GET') return;
ShouldIgnore(req) == req.method # "GET"

SameOrigin(req) == req.url.origin = SelfOrigin

IsNavigation(req) ==
    \/ req.mode = "navigate"
    \/ Includes(AcceptOrEmpty(req), TextHtml)

StaticDestinations == {"style", "script", "image", "font"}

\* a router that tests the static destinations before the navigation
Route_Order_Mut(req) ==
    IF SameOrigin(req) /\ req.destination \in StaticDestinations
    THEN [strategy |-> "staleWhileRevalidate", cache |-> STATIC_CACHE]
    ELSE IF IsNavigation(req)
         THEN [strategy |-> "networkFirst", cache |-> STATIC_CACHE]
         ELSE [strategy |-> "staleWhileRevalidate", cache |-> RUNTIME_CACHE]

\* a router whose last branch uses the static cache
Route_Cache_Mut(req) ==
    IF IsNavigation(req)
    THEN [strategy |-> "networkFirst", cache |-> STATIC_CACHE]
    ELSE [strategy |-> "staleWhileRevalidate", cache |-> STATIC_CACHE]

\* the (strategy, cache) pair the listener hands to respondWith for a GET request
Route(req) ==
    IF IsNavigation(req)
    THEN [strategy |-> "networkFirst", cache |-> STATIC_CACHE]
    ELSE IF SameOrigin(req) /\ req.destination \in StaticDestinations
         THEN [strategy |-> "staleWhileRevalidate", cache |-> STATIC_CACHE]
         ELSE [strategy |-> "staleWhileRevalidate", cache |-> RUNTIME_CACHE]

(* ------------------------- the strategies' choices --------------------- *)
\* a store that does not test res.ok
ShouldStore_Mut(res) == Truthy(res)

\* if (res && res.ok): the response is worth storing
ShouldStore(res) == Truthy(res) /\ Ok(res)

\* a promise object is always truthy
NetworkFetchIsTruthy == TRUE

\* a strategy that always waits for the network
SwrReturn_Mut(cached) == "networkFetch"

\* return cached || networkFetch || Promise.reject('No response')
SwrReturn(cached) ==
    IF Truthy(cached) THEN "cached"
    ELSE IF NetworkFetchIsTruthy THEN "networkFetch"
    ELSE "reject"

\* a catch block that never serves the shell
NfFallback_Mut(cached, fallback) == IF Truthy(cached) THEN cached ELSE Offline503

\* networkFirst's catch block: cached, else the shell, else the synthesized 503
NfFallback(cached, fallback) ==
    IF Truthy(cached) THEN cached
    ELSE IF Truthy(fallback) THEN fallback
    ELSE Offline503

\* a cleanup that does not test the 'pc-' prefix
IsStale_Mut(k) == k # STATIC_CACHE /\ k # RUNTIME_CACHE

\* activate: the caches this version deletes
IsStale(k) == StartsWith(k, PcPrefix) /\ k # STATIC_CACHE /\ k # RUNTIME_CACHE

(* ------------------------------- state --------------------------------- *)
VARIABLES
    cacheOrder,    \* CacheStorage: the names of the existing caches, oldest first
    cacheData,     \* CacheStorage: name -> (request URL -> stored response)
    phase,         \* lifecycle of the newest worker running this script
    hasActive,     \* a worker running this script is active and receives fetch events
    skipWaiting,   \* self.skipWaiting() has been called by the newest worker
    claimed,       \* self.clients.claim() has been called by the newest worker
    installs,      \* install events dispatched to the newest worker (0 or 1)
    inst,          \* the install handler's extended task
    act,           \* the activate handler's extended task
    slots,         \* one record per fetch event dispatched so far
    nslots,        \* number of fetch events dispatched so far
    lastWriter,    \* current cache -> (URL -> fetch event whose put was stored last)
    hist           \* what the runs that log it remember: the last message handled and
                   \* the last two settled install runs

vars == <<cacheOrder, cacheData, phase, hasActive, skipWaiting, claimed, installs,
          inst, act, slots, nslots, lastWriter, hist>>

Slots == 1..(IF MaxFetches >= MaxRouted THEN MaxFetches ELSE MaxRouted)
CurrentCaches == {STATIC_CACHE, RUNTIME_CACHE}

EmptyCache == [k \in Keys |-> Undefined]
Exists(name) == \E i \in 1..Len(cacheOrder) : cacheOrder[i] = name

\* the promise a strategy returns to respondWith
NoPromise == [state |-> "none", value |-> Undefined, reason |-> ""]
Pending == [state |-> "pending", value |-> Undefined, reason |-> ""]
Resolved(v) == [state |-> "resolved", value |-> v, reason |-> ""]
Rejected(why) == [state |-> "rejected", value |-> Undefined, reason |-> why]

FreeSlot ==
    [kind |-> "free", req |-> NoRequest, cache |-> <<>>, pc |-> "free",
     respondWith |-> 0, result |-> NoPromise, cached |-> Undefined, lookedUp |-> FALSE,
     fallback |-> Undefined, net |-> "none", netRes |-> Undefined,
     put |-> "none", putRes |-> Undefined, ops |-> {}, unhandled |-> FALSE]

\* promise is the state of the promise the listener passed to event.waitUntil
IdleInstall == [pc |-> "idle", outcome |-> "none", promise |-> "none"]
\* no message handled, no install run settled yet
NoMessage == [hasData |-> FALSE, type |-> "", called |-> FALSE, handled |-> FALSE]
NoHistory == [msg |-> NoMessage, runs |-> <<>>]
IdleActivate == [pc |-> "idle", keys |-> <<>>, pending |-> {}, promise |-> "none"]

\* caches.open(name): the cache is created when it does not exist yet
Opened(order, name) ==
    IF \E i \in 1..Len(order) : order[i] = name THEN order ELSE Append(order, name)

\* cache.match(request) on the cache called name
CacheMatch(name, key) == IF Exists(name) THEN cacheData[name][key] ELSE Undefined

\* caches.match(url): the first cache, in creation order, that holds the URL
CachesMatch(key) ==
    LET hits == {i \in 1..Len(cacheOrder) : Truthy(cacheData[cacheOrder[i]][key])}
    IN  IF hits = {} THEN Undefined
        ELSE cacheData[cacheOrder[CHOOSE i \in hits : \A j \in hits : i <= j]][key]

(* ------------------------------- Init ---------------------------------- *)
\* the contents of CacheStorage when the script is evaluated:
\*   nothing (first visit); the caches of the previous version and a foreign
\*   cache (an upgrade); or this version's own caches (a restart of the worker)
InitStores ==
    { [order |-> <<>>, shellIn |-> {}, phase |-> "new"],
      [order |-> <<OldStaticCache, OldRuntimeCache, ForeignCache>>,
       shellIn |-> {OldStaticCache}, phase |-> "new"],
      [order |-> <<ForeignCache, OldStaticCache>>,
       shellIn |-> {ForeignCache, OldStaticCache}, phase |-> "new"],
      [order |-> <<STATIC_CACHE, RUNTIME_CACHE>>,
       shellIn |-> {STATIC_CACHE}, phase |-> "activated"] }

Init ==
    \E st \in InitStores :
        /\ cacheOrder = st.order
        /\ cacheData = [n \in CacheNames |->
              IF n \in st.shellIn
              THEN [k \in Keys |-> IF k \in CoreKeys THEN OkResponse("b1") ELSE Undefined]
              ELSE EmptyCache]
        /\ phase = st.phase
        /\ hasActive = (st.phase = "activated")
        /\ skipWaiting = FALSE
        /\ claimed = FALSE
        /\ installs = 0
        /\ inst = IdleInstall
        /\ act = IdleActivate
        /\ slots = [s \in Slots |-> FreeSlot]
        /\ nslots = 0
        /\ lastWriter = [n \in CurrentCaches |-> [k \in Keys |-> 0]]
        /\ hist = NoHistory

(* --------------------------- install (20-27) --------------------------- *)
\* an install listener that does not signal the host
ListenerSkipsWaiting_Mut == FALSE

\* self.skipWaiting() is the listener's last statement: it runs before the
\* listener returns, whatever the extended task does later
ListenerSkipsWaiting == TRUE

\* a chain without the catch: the rejection reaches waitUntil
InstallCatch_Mut(chain) == IF chain = "rejected" THEN "rejected" ELSE "resolved"

\* .catch(() => Promise.resolve()): the promise given to waitUntil resolves
\* whether the chain open -> addAll was fulfilled or rejected
InstallCatch(chain) == "resolved"

\* a store that keeps an entry the cache already holds
AddAllEntry_Mut(old, fetched) == IF Truthy(old) THEN old ELSE fetched

\* cache.addAll puts each fetched response, replacing the entry of the same URL
AddAllEntry(old, fetched) == fetched

\* the host dispatches install to a new worker running this script; the listener
\* registers the extended task and calls self.skipWaiting() before returning
InstallEvent ==
    /\ phase \in {"new", "activated"}
    /\ installs = 0
    /\ installs' = installs + 1
    /\ phase' = "installing"
    /\ inst' = [pc |-> "open", outcome |-> "none", promise |-> "pending"]
    /\ skipWaiting' = ListenerSkipsWaiting
    /\ claimed' = FALSE
    /\ UNCHANGED <<cacheOrder, cacheData, hasActive, act, slots, nslots, lastWriter, hist>>

\* caches.open(STATIC_CACHE) resolves
InstallOpen ==
    /\ inst.pc = "open"
    /\ cacheOrder' = Opened(cacheOrder, STATIC_CACHE)
    /\ inst' = [inst EXCEPT !.pc = "addAll"]
    /\ UNCHANGED <<cacheData, phase, hasActive, skipWaiting, claimed, installs, act,
                   slots, nslots, lastWriter, hist>>

\* the network's answers to the fetches of cache.addAll: every asset answered
\* with the same deployment, or one asset not OK or rejected (Undefined)
AddAllAnswers ==
    {[k \in CoreKeys |-> OkResponse(b)] : b \in Bodies}
    \cup {[k \in CoreKeys |-> IF k = bad THEN r ELSE OkResponse("b1")] :
             bad \in CoreKeys, r \in {NotFound("b1"), Undefined}}

\* cache.addAll stores all the responses, or none when one is rejected or not OK
AddAllSucceeds(ans) == \A k \in CoreKeys : Truthy(ans[k]) /\ Ok(ans[k])

\* the host's verdict on the install: installed when the promise given to
\* waitUntil resolved, redundant (discarded) when it rejected
AfterInstall(promise) == IF promise = "resolved" THEN "installed" ELSE "redundant"

\* cache.addAll(CORE_ASSETS) settles; .catch(() => Promise.resolve()) swallows a failure
AddAllStep(ans) ==
    /\ inst.pc = "addAll"
    /\ IF AddAllSucceeds(ans)
       THEN /\ cacheData' = [cacheData EXCEPT ![STATIC_CACHE] =
                  [k \in Keys |-> IF k \in CoreKeys THEN AddAllEntry(@[k], ans[k]) ELSE @[k]]]
            /\ lastWriter' = [lastWriter EXCEPT ![STATIC_CACHE] =
                  [k \in Keys |-> IF k \in CoreKeys THEN 0 ELSE @[k]]]
            /\ inst' = [pc |-> "done", outcome |-> "stored",
                        promise |-> InstallCatch("fulfilled")]
            /\ phase' = AfterInstall(InstallCatch("fulfilled"))
       ELSE /\ UNCHANGED <<cacheData, lastWriter>>
            /\ inst' = [pc |-> "done", outcome |-> "failed",
                        promise |-> InstallCatch("rejected")]
            /\ phase' = AfterInstall(InstallCatch("rejected"))
    /\ UNCHANGED <<cacheOrder, hasActive, skipWaiting, claimed, installs, act, slots, nslots>>

InstallAddAll(ans) == AddAllStep(ans) /\ UNCHANGED hist

(* --------------------------- activate (29-41) -------------------------- *)
\* the host activates the installed worker once it need not wait any longer
ActivateEvent ==
    /\ phase = "installed"
    /\ (skipWaiting \/ ~hasActive)
    /\ phase' = "activating"
    /\ act' = [pc |-> "keys", keys |-> <<>>, pending |-> {}, promise |-> "pending"]
    /\ UNCHANGED <<cacheOrder, cacheData, hasActive, skipWaiting, claimed, installs, inst,
                   slots, nslots, lastWriter, hist>>

\* a handler that does not await the deletions
AllSettled_Mut(pending) == TRUE

\* await Promise.all(...): every caches.delete the handler started has finished
AllSettled(pending) == pending = {}

\* where the handler stands when these deletions are pending: Promise.all
\* resolves and line 39 runs in the task in which the last of them settles,
\* with no suspension point in between
AfterDeletes(pending) == IF AllSettled(pending) THEN "claim" ELSE "deleting"

\* caches.keys() resolves; keys.map starts one caches.delete per stale name;
\* when no name is stale, Promise.all resolves at once and self.clients.claim()
\* is called in the same task
ActKeys ==
    /\ act.pc = "keys"
    /\ LET stale == {cacheOrder[i] : i \in {j \in 1..Len(cacheOrder) : IsStale(cacheOrder[j])}}
       IN  /\ act' = [pc |-> AfterDeletes(stale), keys |-> cacheOrder,
                      promise |-> act.promise, pending |-> stale]
           /\ claimed' = IF AfterDeletes(stale) = "claim" THEN TRUE ELSE claimed
    /\ UNCHANGED <<cacheOrder, cacheData, phase, hasActive, skipWaiting, installs,
                   inst, slots, nslots, lastWriter, hist>>

\* one caches.delete(k) completes; when it was the last one pending,
\* Promise.all resolves and self.clients.claim() is called in the same task
ActDelete(k) ==
    /\ act.pc = "deleting"
    /\ k \in act.pending
    /\ cacheOrder' = SelectSeq(cacheOrder, LAMBDA n : n # k)
    /\ cacheData' = [cacheData EXCEPT ![k] = EmptyCache]
    /\ act' = [act EXCEPT !.pending = @ \ {k}, !.pc = AfterDeletes(act.pending \ {k})]
    /\ claimed' = IF AfterDeletes(act.pending \ {k}) = "claim" THEN TRUE ELSE claimed
    /\ UNCHANGED <<phase, hasActive, skipWaiting, installs, inst, slots, nslots,
                   lastWriter, hist>>

\* clients.claim() resolves: the extended task is complete, the worker is active
ActDone ==
    /\ act.pc = "claim"
    /\ act' = [act EXCEPT !.pc = "done", !.promise = "resolved"]
    /\ phase' = "activated"
    /\ hasActive' = TRUE
    /\ UNCHANGED <<cacheOrder, cacheData, skipWaiting, claimed, installs, inst, slots,
                   nslots, lastWriter, hist>>

(* ------------------------ fetch listener (79-103) ---------------------- *)
Unch_Lifecycle ==
    UNCHANGED <<phase, hasActive, skipWaiting, claimed, installs, inst, act, hist>>

\* the host dispatches a fetch event to the active worker; the listener runs to
\* its return: it leaves a non-GET request alone, and otherwise calls
\* respondWith once with the promise of the routed strategy
FetchEvent(r, limit) ==
    /\ hasActive
    /\ nslots < limit
    /\ nslots' = nslots + 1
    /\ slots' = [slots EXCEPT ![nslots + 1] =
          IF ShouldIgnore(r)
          THEN [FreeSlot EXCEPT !.kind = "ignored", !.req = r, !.pc = "done"]
          ELSE [FreeSlot EXCEPT !.kind = Route(r).strategy, !.req = r,
                                !.cache = Route(r).cache, !.pc = "open",
                                !.respondWith = 1, !.result = Pending]]
    /\ UNCHANGED <<cacheOrder, cacheData, lastWriter>>
    /\ Unch_Lifecycle

(* -------------------------- networkFirst (62-77) ----------------------- *)
\* caches.open(cacheName) resolves; fetch(request) is issued
NfOpen(s) ==
    /\ slots[s].kind = "networkFirst"
    /\ slots[s].pc = "open"
    /\ cacheOrder' = Opened(cacheOrder, slots[s].cache)
    /\ slots' = [slots EXCEPT ![s].pc = "fetch", ![s].net = "pending",
                              ![s].ops = @ \cup {<<"open", slots[s].cache>>, <<"fetch", <<>> >>}]
    /\ UNCHANGED <<cacheData, nslots, lastWriter>>
    /\ Unch_Lifecycle

\* fetch resolves with res: an OK response is put (not awaited), res is returned
NfFetchResolve(s, res) ==
    /\ slots[s].kind = "networkFirst"
    /\ slots[s].pc = "fetch"
    /\ slots' = [slots EXCEPT
          ![s].net = "resolved", ![s].netRes = res,
          ![s].put = IF ShouldStore(res) THEN "pending" ELSE @,
          ![s].putRes = IF ShouldStore(res) THEN Clone(res) ELSE @,
          ![s].ops = IF ShouldStore(res) THEN @ \cup {<<"put", slots[s].cache>>} ELSE @,
          ![s].result = Resolved(res),
          ![s].pc = "done"]
    /\ UNCHANGED <<cacheOrder, cacheData, nslots, lastWriter>>
    /\ Unch_Lifecycle

\* fetch rejects: control enters the catch block
NfFetchReject(s) ==
    /\ slots[s].kind = "networkFirst"
    /\ slots[s].pc = "fetch"
    /\ slots' = [slots EXCEPT ![s].net = "rejected", ![s].pc = "match"]
    /\ UNCHANGED <<cacheOrder, cacheData, nslots, lastWriter>>
    /\ Unch_Lifecycle

\* cache.match(request) resolves; if (cached) return cached
NfMatch(s) ==
    /\ slots[s].kind = "networkFirst"
    /\ slots[s].pc = "match"
    /\ LET cached == CacheMatch(slots[s].cache, slots[s].req.url)
       IN  slots' = [slots EXCEPT
              ![s].cached = cached, ![s].lookedUp = TRUE,
              ![s].ops = @ \cup {<<"match", slots[s].cache>>},
              ![s].result = IF Truthy(cached) THEN Resolved(cached) ELSE @,
              ![s].pc = IF Truthy(cached) THEN "done" ELSE "shell"]
    /\ UNCHANGED <<cacheOrder, cacheData, nslots, lastWriter>>
    /\ Unch_Lifecycle

\* caches.match('./index.html') resolves; return fallback || new Response(503)
NfShell(s) ==
    /\ slots[s].kind = "networkFirst"
    /\ slots[s].pc = "shell"
    /\ LET fallback == CachesMatch(ShellKey)
       IN  slots' = [slots EXCEPT
              ![s].fallback = fallback,
              ![s].ops = @ \cup {<<"match", cacheOrder[i]>> : i \in 1..Len(cacheOrder)},
              ![s].result = Resolved(NfFallback(slots[s].cached, fallback)),
              ![s].pc = "done"]
    /\ UNCHANGED <<cacheOrder, cacheData, nslots, lastWriter>>
    /\ Unch_Lifecycle

(* ---------------------- staleWhileRevalidate (44-59) ------------------- *)
\* caches.open(cacheName) resolves
SwrOpen(s) ==
    /\ slots[s].kind = "staleWhileRevalidate"
    /\ slots[s].pc = "open"
    /\ cacheOrder' = Opened(cacheOrder, slots[s].cache)
    /\ slots' = [slots EXCEPT ![s].pc = "match",
                              ![s].ops = @ \cup {<<"open", slots[s].cache>>}]
    /\ UNCHANGED <<cacheData, nslots, lastWriter>>
    /\ Unch_Lifecycle

\* cache.match(request) resolves; fetch(request) is issued; the function returns
\* cached || networkFetch || Promise.reject('No response')
SwrMatch(s) ==
    /\ slots[s].kind = "staleWhileRevalidate"
    /\ slots[s].pc = "match"
    /\ LET cached == CacheMatch(slots[s].cache, slots[s].req.url)
       IN  slots' = [slots EXCEPT
              ![s].cached = cached, ![s].lookedUp = TRUE,
              ![s].net = "pending",
              ![s].ops = @ \cup {<<"match", slots[s].cache>>, <<"fetch", <<>> >>},
              ![s].result = CASE SwrReturn(cached) = "cached" -> Resolved(cached)
                              [] SwrReturn(cached) = "networkFetch" -> Pending
                              [] OTHER -> Rejected("No response"),
              ![s].pc = "fetch"]
    /\ UNCHANGED <<cacheOrder, cacheData, nslots, lastWriter>>
    /\ Unch_Lifecycle

\* fetch resolves with res: an OK response is put (not awaited); networkFetch
\* resolves with res, and with it the returned promise when it follows networkFetch
SwrFetchResolve(s, res) ==
    /\ slots[s].kind = "staleWhileRevalidate"
    /\ slots[s].pc = "fetch"
    /\ slots' = [slots EXCEPT
          ![s].net = "resolved", ![s].netRes = res,
          ![s].put = IF ShouldStore(res) THEN "pending" ELSE @,
          ![s].putRes = IF ShouldStore(res) THEN Clone(res) ELSE @,
          ![s].ops = IF ShouldStore(res) THEN @ \cup {<<"put", slots[s].cache>>} ELSE @,
          ![s].result = IF @.state = "pending" THEN Resolved(res) ELSE @,
          ![s].pc = "done"]
    /\ UNCHANGED <<cacheOrder, cacheData, nslots, lastWriter>>
    /\ Unch_Lifecycle

\* fetch rejects: .catch(() => undefined) makes networkFetch resolve with undefined
SwrFetchReject(s) ==
    /\ slots[s].kind = "staleWhileRevalidate"
    /\ slots[s].pc = "fetch"
    /\ slots' = [slots EXCEPT
          ![s].net = "rejected",
          ![s].result = IF @.state = "pending" THEN Resolved(Undefined) ELSE @,
          ![s].pc = "done"]
    /\ UNCHANGED <<cacheOrder, cacheData, nslots, lastWriter>>
    /\ Unch_Lifecycle

(* ------------------------ background work, host ------------------------ *)
\* a cache.put started by a strategy completes: the entry is replaced
PutComplete(s) ==
    /\ slots[s].put = "pending"
    /\ cacheData' = IF Exists(slots[s].cache)
                    THEN [cacheData EXCEPT ![slots[s].cache][slots[s].req.url] = slots[s].putRes]
                    ELSE cacheData
    /\ lastWriter' = IF slots[s].cache \in CurrentCaches
                     THEN [lastWriter EXCEPT ![slots[s].cache][slots[s].req.url] = s]
                     ELSE lastWriter
    /\ slots' = [slots EXCEPT ![s].put = "stored"]
    /\ UNCHANGED <<cacheOrder, nslots>>
    /\ Unch_Lifecycle

\* work no respondWith or waitUntil promise keeps alive
Background(s) ==
    \/ slots[s].put = "pending"
    \/ slots[s].pc \in {"open", "fetch", "match", "shell"}

\* the host stops the worker when no event is pending any more: every promise
\* given to respondWith or waitUntil has settled.  What still runs is dropped
HostTerminate ==
    /\ \A s \in Slots : slots[s].result.state # "pending"
    /\ inst.pc \in {"idle", "done"}
    /\ act.pc \in {"idle", "done", "failed"}
    /\ \E s \in Slots : Background(s)
    /\ slots' = [s \in Slots |->
          IF Background(s)
          THEN [slots[s] EXCEPT
                  !.pc = IF @ = "done" THEN @ ELSE "killed",
                  !.net = IF @ = "pending" THEN "aborted" ELSE @,
                  !.put = IF @ = "pending" THEN "abandoned" ELSE @]
          ELSE slots[s]]
    /\ UNCHANGED <<cacheOrder, cacheData, nslots, lastWriter>>
    /\ Unch_Lifecycle

(* ------------------------- storage that can fail ----------------------- *)
\* caches.open(STATIC_CACHE) rejects: addAll is skipped, the catch takes over
InstallOpenFail ==
    /\ inst.pc = "open"
    /\ inst' = [pc |-> "done", outcome |-> "openFailed", promise |-> InstallCatch("rejected")]
    /\ phase' = AfterInstall(InstallCatch("rejected"))
    /\ UNCHANGED <<cacheOrder, cacheData, hasActive, skipWaiting, claimed, installs, act,
                   slots, nslots, lastWriter, hist>>

\* await caches.keys() rejects: nothing in the async function catches it, the
\* promise given to waitUntil rejects, lines 32-39 never run.  The host makes
\* the worker active all the same
ActKeysFail ==
    /\ act.pc = "keys"
    /\ act' = [act EXCEPT !.pc = "failed", !.promise = "rejected"]
    /\ phase' = "activated"
    /\ hasActive' = TRUE
    /\ UNCHANGED <<cacheOrder, cacheData, skipWaiting, claimed, installs, inst, slots,
                   nslots, lastWriter, hist>>

\* one caches.delete(k) rejects: Promise.all rejects at once, without waiting
\* for the other deletions, and the await on it throws out of the function
ActDeleteFail(k) ==
    /\ act.pc = "deleting"
    /\ k \in act.pending
    /\ act' = [act EXCEPT !.pc = "failed", !.promise = "rejected", !.pending = @ \ {k}]
    /\ phase' = "activated"
    /\ hasActive' = TRUE
    /\ UNCHANGED <<cacheOrder, cacheData, skipWaiting, claimed, installs, inst, slots,
                   nslots, lastWriter, hist>>

\* await self.clients.claim() rejects: the extended task rejects after the cleanup
ActClaimFail ==
    /\ act.pc = "claim"
    /\ act' = [act EXCEPT !.pc = "failed", !.promise = "rejected"]
    /\ phase' = "activated"
    /\ hasActive' = TRUE
    /\ UNCHANGED <<cacheOrder, cacheData, skipWaiting, claimed, installs, inst, slots,
                   nslots, lastWriter, hist>>

\* a deletion that was started before Promise.all rejected completes, unawaited
ActDeleteDetached(k) ==
    /\ act.pc = "failed"
    /\ k \in act.pending
    /\ cacheOrder' = SelectSeq(cacheOrder, LAMBDA n : n # k)
    /\ cacheData' = [cacheData EXCEPT ![k] = EmptyCache]
    /\ act' = [act EXCEPT !.pending = @ \ {k}]
    /\ UNCHANGED <<phase, hasActive, skipWaiting, claimed, installs, inst, slots, nslots,
                   lastWriter, hist>>

\* networkFirst: caches.open(cacheName) rejects at line 63, outside the try
NfOpenFail(s) ==
    /\ slots[s].kind = "networkFirst"
    /\ slots[s].pc = "open"
    /\ slots' = [slots EXCEPT ![s].pc = "done",
                              ![s].ops = @ \cup {<<"open", slots[s].cache>>},
                              ![s].result = Rejected("open")]
    /\ UNCHANGED <<cacheOrder, cacheData, nslots, lastWriter>>
    /\ Unch_Lifecycle

\* networkFirst: cache.match(request) rejects at line 71, inside the catch block
NfMatchFail(s) ==
    /\ slots[s].kind = "networkFirst"
    /\ slots[s].pc = "match"
    /\ slots' = [slots EXCEPT ![s].pc = "done",
                              ![s].ops = @ \cup {<<"match", slots[s].cache>>},
                              ![s].result = Rejected("match")]
    /\ UNCHANGED <<cacheOrder, cacheData, nslots, lastWriter>>
    /\ Unch_Lifecycle

\* networkFirst: caches.match('./index.html') rejects at line 74, inside the catch block
NfShellFail(s) ==
    /\ slots[s].kind = "networkFirst"
    /\ slots[s].pc = "shell"
    /\ slots' = [slots EXCEPT ![s].pc = "done",
                              ![s].ops = @ \cup {<<"match", cacheOrder[i]>> : i \in 1..Len(cacheOrder)},
                              ![s].result = Rejected("shell")]
    /\ UNCHANGED <<cacheOrder, cacheData, nslots, lastWriter>>
    /\ Unch_Lifecycle

\* staleWhileRevalidate: caches.open(cacheName) rejects at line 45
SwrOpenFail(s) ==
    /\ slots[s].kind = "staleWhileRevalidate"
    /\ slots[s].pc = "open"
    /\ slots' = [slots EXCEPT ![s].pc = "done",
                              ![s].ops = @ \cup {<<"open", slots[s].cache>>},
                              ![s].result = Rejected("open")]
    /\ UNCHANGED <<cacheOrder, cacheData, nslots, lastWriter>>
    /\ Unch_Lifecycle

\* staleWhileRevalidate: cache.match(request) rejects at line 46, before the fetch
SwrMatchFail(s) ==
    /\ slots[s].kind = "staleWhileRevalidate"
    /\ slots[s].pc = "match"
    /\ slots' = [slots EXCEPT ![s].pc = "done",
                              ![s].ops = @ \cup {<<"match", slots[s].cache>>},
                              ![s].result = Rejected("match")]
    /\ UNCHANGED <<cacheOrder, cacheData, nslots, lastWriter>>
    /\ Unch_Lifecycle

\* cache.put(request, res.clone()) is an expression statement at lines 51 and
\* 67: its promise is not awaited, not returned and has no catch
PutIsHandled == FALSE

\* a cache.put started by a strategy rejects: nothing is stored, and the
\* rejection has no handler
PutFail(s) ==
    /\ slots[s].put = "pending"
    /\ slots' = [slots EXCEPT ![s].put = "failed", ![s].unhandled = ~PutIsHandled]
    /\ UNCHANGED <<cacheOrder, cacheData, nslots, lastWriter>>
    /\ Unch_Lifecycle

(* ------------------------ message listener (105-109) ------------------- *)
\* event.data is falsy, a value without type, or an object with a type
Messages ==
    {[hasData |-> FALSE, type |-> ""], [hasData |-> TRUE, type |-> ""],
     [hasData |-> TRUE, type |-> "SKIP_WAITING"], [hasData |-> TRUE, type |-> "OTHER"]}

\* a listener that acts on any message carrying data
IsSkipWaiting_Mut(m) == m.hasData

\* event.data && event.data.type === 'SKIP_WAITING'
IsSkipWaiting(m) == m.hasData /\ m.type = "SKIP_WAITING"

\* a page posts m to the worker; the listener runs to its return
MessageEvent(m) ==
    /\ phase # "new"
    /\ skipWaiting' = IF IsSkipWaiting(m) THEN TRUE ELSE skipWaiting
    /\ hist' = [hist EXCEPT !.msg = [hasData |-> m.hasData, type |-> m.type,
                                     called |-> IsSkipWaiting(m), handled |-> TRUE]]
    /\ UNCHANGED <<cacheOrder, cacheData, phase, hasActive, claimed, installs, inst, act,
                   slots, nslots, lastWriter>>

(* --------------------------- a second install -------------------------- *)
\* the host installs the worker again (an update check found a changed script
\* that carries the same VERSION): the install listener runs as at line 20
InstallAgain ==
    /\ phase = "activated"
    /\ installs = 1
    /\ phase' = "installing"
    /\ inst' = [pc |-> "open", outcome |-> "none", promise |-> "pending"]
    /\ skipWaiting' = ListenerSkipsWaiting
    /\ claimed' = FALSE
    /\ UNCHANGED <<cacheOrder, cacheData, hasActive, installs, act, slots, nslots,
                   lastWriter, hist>>

\* no content: a run in which some manifest path was not delivered with an OK status
NoContent == [k \in CoreKeys |-> Undefined]

\* cache.addAll settles, and the run is remembered: the content the network
\* delivered and what the static cache holds when the run has settled
InstallAddAllLogged(ans) ==
    /\ AddAllStep(ans)
    /\ LET run == [content |-> IF AddAllSucceeds(ans) THEN ans ELSE NoContent,
                   after |-> cacheData'[STATIC_CACHE]]
       IN  hist' = [hist EXCEPT !.runs = IF Len(@) = 2 THEN <<@[2], run>> ELSE Append(@, run)]

(* ------------------------------ the system ----------------------------- *)
Lifecycle ==
    \/ InstallEvent
    \/ InstallOpen
    \/ \E ans \in AddAllAnswers : InstallAddAll(ans)
    \/ ActivateEvent
    \/ ActKeys
    \/ \E k \in CacheNames : ActDelete(k)
    \/ ActDone

NfSteps ==
    \/ \E s \in Slots : NfOpen(s)
    \/ \E s \in Slots, res \in NetResponses : NfFetchResolve(s, res)
    \/ \E s \in Slots : NfFetchReject(s)
    \/ \E s \in Slots : NfMatch(s)
    \/ \E s \in Slots : NfShell(s)

SwrSteps ==
    \/ \E s \in Slots : SwrOpen(s)
    \/ \E s \in Slots : SwrMatch(s)
    \/ \E s \in Slots, res \in NetResponses : SwrFetchResolve(s, res)
    \/ \E s \in Slots : SwrFetchReject(s)

BackgroundSteps ==
    \/ \E s \in Slots : PutComplete(s)
    \/ HostTerminate

\* the worker under every kind of request
Next ==
    \/ Lifecycle
    \/ \E r \in Requests : FetchEvent(r, MaxRouted)
    \/ NfSteps
    \/ SwrSteps
    \/ BackgroundSteps

Spec == Init /\ [][Next]_vars

\* navigation requests in flight together
NextNav ==
    \/ Lifecycle
    \/ \E r \in NavRequests : FetchEvent(r, MaxFetches)
    \/ NfSteps
    \/ BackgroundSteps

SpecNav == Init /\ [][NextNav]_vars

\* asset requests in flight together
NextSwr ==
    \/ Lifecycle
    \/ \E r \in SwrRequests : FetchEvent(r, MaxFetches)
    \/ SwrSteps
    \/ BackgroundSteps

SpecSwr == Init /\ [][NextSwr]_vars

\* a navigation request and an asset request in flight together
NextMixed ==
    \/ Lifecycle
    \/ \E r \in MixedRequests : FetchEvent(r, MaxFetches)
    \/ NfSteps
    \/ SwrSteps
    \/ BackgroundSteps

SpecMixed == Init /\ [][NextMixed]_vars

\* navigations to one page in flight together
NextPage ==
    \/ Lifecycle
    \/ \E r \in PageRequests : FetchEvent(r, MaxFetches)
    \/ NfSteps
    \/ BackgroundSteps

\* the tasks of networkFirst run on: a cache lookup settles and its continuation
\* runs; the host keeps the worker alive while a respondWith promise is pending
FairSpecPage ==
    /\ Init /\ [][NextPage]_vars
    /\ \A s \in Slots : WF_vars(NfMatch(s)) /\ WF_vars(NfShell(s))

\* a navigation request and an asset request over storage that can fail
NextFaults ==
    \/ Lifecycle
    \/ InstallOpenFail
    \/ ActKeysFail
    \/ \E k \in CacheNames : ActDeleteFail(k)
    \/ \E k \in CacheNames : ActDeleteDetached(k)
    \/ ActClaimFail
    \/ \E r \in MixedRequests : FetchEvent(r, MaxRouted)
    \/ NfSteps
    \/ SwrSteps
    \/ BackgroundSteps
    \/ \E s \in Slots : NfOpenFail(s)
    \/ \E s \in Slots : NfMatchFail(s)
    \/ \E s \in Slots : NfShellFail(s)
    \/ \E s \in Slots : SwrOpenFail(s)
    \/ \E s \in Slots : SwrMatchFail(s)
    \/ \E s \in Slots : PutFail(s)

SpecFaults == Init /\ [][NextFaults]_vars

\* pages post messages to the worker through its life
NextMessages ==
    \/ Lifecycle
    \/ \E m \in Messages : MessageEvent(m)

SpecMessages == Init /\ [][NextMessages]_vars

\* the host honours the skip-waiting flag: it activates a waiting worker
\* whose flag is set without waiting for the controlled pages to close
FairSpecMessages == SpecMessages /\ WF_vars(ActivateEvent)

\* the worker is installed again and again, with navigations to the shell
NextReinstall ==
    \/ InstallEvent
    \/ InstallAgain
    \/ InstallOpen
    \/ \E ans \in AddAllAnswers : InstallAddAllLogged(ans)
    \/ ActivateEvent
    \/ ActKeys
    \/ \E k \in CacheNames : ActDelete(k)
    \/ ActDone
    \/ FetchEvent(RNavIndex, MaxRouted)
    \/ NfSteps
    \/ BackgroundSteps

SpecReinstall == Init /\ [][NextReinstall]_vars

\* requests for one pre-cached asset in flight together
NextRevalidate ==
    \/ Lifecycle
    \/ \E r \in RevalidatedRequests : FetchEvent(r, MaxFetches)
    \/ SwrSteps
    \/ BackgroundSteps

SpecRevalidate == Init /\ [][NextRevalidate]_vars

(* ------------------------------- claims -------------------------------- *)
Handled(s) == slots[s].kind # "free"
IsGet(s) == slots[s].req.method = "GET"
TouchesCache(s, name) == \E o \in slots[s].ops : o[2] = name

\* C1: a request whose method is not GET is left alone: respondWith is not
\* called, no fetch is issued, no cache is opened, read or written for it
C1_NonGetPassesThrough ==
    \A s \in Slots :
        (Handled(s) /\ ~IsGet(s)) =>
            /\ slots[s].respondWith = 0
            /\ slots[s].result.state = "none"
            /\ slots[s].ops = {}
            /\ slots[s].net = "none"
            /\ slots[s].put = "none"

C1_Witness ==
    \E s \in Slots : slots[s].req = RPost /\ slots[s].pc = "done" /\ slots[s].kind = "ignored"

\* the routing rule as the specification words it
RuleNavigation(req) ==
    req.mode = "navigate" \/ Includes(AcceptOrEmpty(req), TextHtml)
RuleStaticAsset(req) ==
    req.url.origin = SelfOrigin /\ req.destination \in {"style", "script", "image", "font"}

\* C2: every GET request is given to exactly one strategy and cache, the first
\* that matches: navigation or text/html -> networkFirst on the static cache;
\* same-origin style/script/image/font -> staleWhileRevalidate on the static
\* cache; anything else -> staleWhileRevalidate on the runtime cache; and
\* respondWith is called once
C2_RoutedByFirstMatch ==
    \A s \in Slots :
        (Handled(s) /\ IsGet(s)) =>
            /\ slots[s].respondWith = 1
            /\ <<slots[s].kind, slots[s].cache>> =
                 IF RuleNavigation(slots[s].req)
                 THEN <<"networkFirst", STATIC_CACHE>>
                 ELSE IF RuleStaticAsset(slots[s].req)
                      THEN <<"staleWhileRevalidate", STATIC_CACHE>>
                      ELSE <<"staleWhileRevalidate", RUNTIME_CACHE>>

\* a same-origin image asked for with accept: text/html matches rules 1 and 2
C2_Witness ==
    \E s \in Slots : slots[s].req = RHtmlImage /\ slots[s].kind = "networkFirst"
                     /\ slots[s].pc = "done"

\* an accept header set twice reads as "*/*, text/html": rule 1 applies
C2_WitnessTwoAccept ==
    \E s \in Slots : slots[s].req = RTwoAccept /\ slots[s].kind = "networkFirst"
                     /\ slots[s].pc = "done"

\* a header spelled Accept is the accept header: rule 1 applies
C2_WitnessUpperCase ==
    \E s \in Slots : slots[s].req = RCdnHtml /\ slots[s].kind = "networkFirst"
                     /\ slots[s].cache = STATIC_CACHE

\* C3 as stated: every cross-origin GET request and every same-origin GET request
\* whose destination is not style/script/image/font is handled by
\* staleWhileRevalidate on the runtime cache and never touches the static cache
C3_AsStated ==
    \A s \in Slots :
        (Handled(s) /\ IsGet(s) /\ ~RuleStaticAsset(slots[s].req)) =>
            /\ slots[s].kind = "staleWhileRevalidate"
            /\ slots[s].cache = RUNTIME_CACHE
            /\ ~TouchesCache(s, STATIC_CACHE)

\* C3 amended: every GET request that is not a navigation (mode navigate or
\* accept containing text/html) and is cross-origin or has a destination other
\* than style/script/image/font is handled by staleWhileRevalidate on the
\* runtime cache and never opens, reads or writes the static cache
C3_UnmatchedUseRuntime ==
    \A s \in Slots :
        (Handled(s) /\ IsGet(s) /\ ~RuleNavigation(slots[s].req)
                    /\ ~RuleStaticAsset(slots[s].req)) =>
            /\ slots[s].kind = "staleWhileRevalidate"
            /\ slots[s].cache = RUNTIME_CACHE
            /\ ~TouchesCache(s, STATIC_CACHE)

C3_Witness ==
    \E s \in Slots :
        /\ slots[s].req \in {RCdnScript, RApi}
        /\ slots[s].put = "stored"
        /\ TouchesCache(s, RUNTIME_CACHE)
        /\ cacheData[RUNTIME_CACHE][slots[s].req.url] = slots[s].netRes

\* the entry of the target cache for the request of slot s, in the current state
EntryFor(s) == CacheMatch(slots[s].cache, slots[s].req.url)
IsNf(s) == slots[s].kind = "networkFirst"
IsSwr(s) == slots[s].kind = "staleWhileRevalidate"

\* what C4 promises for a request whose lookup of its own entry happens now
C4_AtMatch(s) ==
    (IsNf(s) /\ slots[s].pc = "match" /\ slots'[s].pc # "match") =>
        IF Truthy(EntryFor(s))
        THEN slots'[s].result = Resolved(EntryFor(s))
        ELSE slots'[s].result.state = "pending" /\ slots'[s].pc = "shell"

\* what C4 promises for a request whose lookup of the shell happens now
C4_AtShell(s) ==
    (IsNf(s) /\ slots[s].pc = "shell" /\ slots'[s].pc # "shell") =>
        IF \E n \in CacheNames : Exists(n) /\ Truthy(cacheData[n][ShellKey])
        THEN /\ slots'[s].result.state = "resolved"
             /\ \E n \in CacheNames :
                   Exists(n) /\ Truthy(cacheData[n][ShellKey])
                   /\ slots'[s].result.value = cacheData[n][ShellKey]
        ELSE /\ slots'[s].result.state = "resolved"
             /\ slots'[s].result.value.status = 503
             /\ slots'[s].result.value.statusText = "Offline"

\* C4: when the fetch of networkFirst rejects, the returned promise resolves,
\* never rejects and never stays pending; its value is the entry the target
\* cache holds for the request, else the cached './index.html', else a
\* response with status 503 and statusText 'Offline'
C4_NetworkFirstFallback ==
    /\ [][\A s \in Slots : C4_AtMatch(s) /\ C4_AtShell(s)]_vars
    /\ [](\A s \in Slots : IsNf(s) => slots[s].result.state # "rejected")
    /\ \A s \in Slots :
          (IsNf(s) /\ slots[s].net = "rejected") ~> (slots[s].result.state = "resolved")

\* a request with no entry of its own, served the shell
C4_Witness ==
    \E s \in Slots :
        /\ IsNf(s) /\ slots[s].net = "rejected" /\ ~Truthy(slots[s].cached)
        /\ Truthy(slots[s].fallback)
        /\ slots[s].result = Resolved(slots[s].fallback)

\* a request served the entry an earlier request stored
C4_WitnessEntry ==
    \E s \in Slots :
        /\ IsNf(s) /\ slots[s].net = "rejected" /\ Truthy(slots[s].cached)
        /\ slots[s].result = Resolved(slots[s].cached)

\* a request served the synthesized response
C4_Witness503 ==
    \E s \in Slots : IsNf(s) /\ slots[s].net = "rejected" /\ slots[s].result = Resolved(Offline503)

\* C5 as stated: when networkFirst returns an OK response of the network, the
\* static cache entry of the request equals the returned response
C5_AsStated ==
    \A s \in Slots :
        (IsNf(s) /\ slots[s].net = "resolved" /\ Ok(slots[s].netRes)
                 /\ slots[s].result.state = "resolved") =>
            EntryFor(s) = slots[s].result.value

\* C5 amended: when the fetch of networkFirst succeeds with an OK response, that
\* response is returned and a store of a copy of it under the request is
\* started and not awaited; once this store has completed, the static cache
\* entry equals the returned response for as long as no later store for the
\* same request (of another in-flight request, or of install) has replaced it
C5_StoredCopyIsReturned ==
    \A s \in Slots :
        (IsNf(s) /\ slots[s].net = "resolved" /\ Ok(slots[s].netRes)) =>
            /\ slots[s].result = Resolved(slots[s].netRes)
            /\ slots[s].put \in {"pending", "stored", "abandoned"}
            /\ slots[s].putRes = slots[s].result.value
            /\ (slots[s].put = "stored" /\ lastWriter[slots[s].cache][slots[s].req.url] = s)
                  => EntryFor(s) = slots[s].result.value

\* two requests for one page answered differently; the later store is the entry
C5_Witness ==
    \E s, t \in Slots :
        /\ s # t /\ IsNf(s) /\ IsNf(t) /\ slots[s].req = slots[t].req
        /\ slots[s].put = "stored" /\ slots[t].put = "stored"
        /\ slots[s].result.value # slots[t].result.value
        /\ lastWriter[slots[t].cache][slots[t].req.url] = t
        /\ EntryFor(t) = slots[t].result.value

\* what C6 promises for a request whose lookup happens now and finds an entry
C6_AtMatch(s) ==
    (IsSwr(s) /\ slots[s].pc = "match" /\ slots'[s].pc # "match" /\ Truthy(EntryFor(s))) =>
        /\ slots'[s].result = Resolved(EntryFor(s))
        /\ slots'[s].net = "pending"

\* C6: when staleWhileRevalidate finds an entry for the request, the returned
\* promise resolves with that entry at the lookup, while the fetch is still
\* pending, and keeps that value whatever the fetch does afterwards
C6_CachedIsServedAtOnce ==
    /\ [][\A s \in Slots : C6_AtMatch(s)]_vars
    /\ [](\A s \in Slots :
            (IsSwr(s) /\ slots[s].lookedUp /\ Truthy(slots[s].cached)) =>
                slots[s].result = Resolved(slots[s].cached))

\* an entry served while the fetch of the same task is still pending
C6_Witness ==
    \E s \in Slots :
        /\ IsSwr(s) /\ Truthy(slots[s].cached) /\ slots[s].net = "pending"
        /\ slots[s].result = Resolved(slots[s].cached)

\* an entry served to a task whose fetch then failed
C6_WitnessFailed ==
    \E s \in Slots :
        /\ IsSwr(s) /\ Truthy(slots[s].cached) /\ slots[s].net = "rejected"
        /\ slots[s].result = Resolved(slots[s].cached)

\* C7 as stated, in the form a finite run refutes: once the revalidation fetch
\* of staleWhileRevalidate has resolved with an OK response, the store of its
\* copy is pending or done; it is never given up
C7_AsStated ==
    \A s \in Slots :
        (IsSwr(s) /\ slots[s].net = "resolved" /\ Ok(slots[s].netRes)) =>
            slots[s].put \in {"pending", "stored"}

\* C8 as stated: with no entry for the request and a fetch that fails, the
\* promise staleWhileRevalidate returned rejects with 'No response'
C8_AsStated ==
    \A s \in Slots :
        (IsSwr(s) /\ slots[s].lookedUp /\ ~Truthy(slots[s].cached)
                  /\ slots[s].net = "rejected") =>
            slots[s].result = Rejected("No response")

\* every entry of the two current caches is a response that reported success
C9_EntriesOk ==
    \A n \in CurrentCaches, k \in Keys : Truthy(cacheData[n][k]) => Ok(cacheData[n][k])

\* no step removes an entry of a current cache or replaces it by a response
\* that did not report success
C9_Step ==
    \A n \in CurrentCaches, k \in Keys :
        Truthy(cacheData[n][k]) => (Truthy(cacheData'[n][k]) /\ Ok(cacheData'[n][k]))

\* C9: in every reachable state every entry of the static and of the runtime
\* cache is a response that reported success when it was stored, and no
\* failed or non-OK fetch removes or replaces an entry
C9_OnlyOkStored == []C9_EntriesOk /\ [][C9_Step]_vars

\* a non-OK answer and a rejected fetch, each for a request whose entry stays, and
\* an install whose addAll failed over the entries of an earlier install
C9_Witness ==
    /\ inst.outcome = "failed"
    /\ Truthy(cacheData[STATIC_CACHE][ShellKey])
    /\ \E s \in Slots :
          /\ slots[s].pc = "done"
          /\ \/ slots[s].net = "rejected"
             \/ slots[s].net = "resolved" /\ ~Ok(slots[s].netRes)
          /\ Truthy(EntryFor(s)) /\ Ok(EntryFor(s))
          /\ slots[s].cache = RUNTIME_CACHE

\* a cache of this worker's namespace that is not one of the two current caches
StaleName(n) == StartsWith(n, PcPrefix) /\ n # STATIC_CACHE /\ n # RUNTIME_CACHE
NoStaleCache == \A n \in CacheNames : Exists(n) => ~StaleName(n)

\* C10: once the activate task has completed no cache named 'pc-...' other than
\* the two current caches exists, in that state and in every later one; and no
\* step deletes a current cache or a cache whose name does not start with 'pc-'
C10_ActivateCleansUp ==
    /\ [](act.pc = "done" => NoStaleCache)
    /\ [][NoStaleCache => NoStaleCache']_vars
    /\ [][\A n \in CacheNames : (Exists(n) /\ ~StaleName(n)) => Exists(n)']_vars

\* the old version's caches are gone, the foreign cache "pcdata" is still there
C10_Witness ==
    /\ act.pc = "done"
    /\ \E i \in 1..Len(act.keys) : act.keys[i] = OldStaticCache
    /\ ~Exists(OldStaticCache) /\ ~Exists(OldRuntimeCache)
    /\ Exists(ForeignCache) /\ Exists(STATIC_CACHE)
    /\ Truthy(cacheData[ForeignCache][ShellKey])

\* C11: the promise the install listener gives to waitUntil never rejects and,
\* once the chain has settled, is resolved, whether caches.open failed, a
\* manifest fetch failed or was not OK, or everything was stored; the host
\* never discards the worker for a failed pre-population
C11_InstallNeverRejects ==
    /\ inst.promise # "rejected"
    /\ phase # "redundant"
    /\ inst.pc = "done" => (inst.promise = "resolved" /\ inst.outcome \in {"stored", "failed", "openFailed"})

C11_Witness == inst.outcome = "openFailed" /\ inst.promise = "resolved" /\ phase = "installed"
C11_WitnessFetch == inst.outcome = "failed" /\ inst.promise = "resolved" /\ phase = "installed"

\* C12: when the install listener has run twice for the same VERSION and the
\* network delivered the same content for every manifest path in both runs,
\* the static cache holds after the second run exactly the entries it held
\* after the first, whatever navigations stored in between
C12_ReinstallIdempotent ==
    (/\ Len(hist.runs) = 2
     /\ hist.runs[1].content # NoContent
     /\ hist.runs[2].content = hist.runs[1].content)
        => hist.runs[2].after = hist.runs[1].after

C12_Witness ==
    /\ Len(hist.runs) = 2
    /\ hist.runs[1].content # NoContent
    /\ hist.runs[2].content = hist.runs[1].content
    /\ inst.pc = "done"
    /\ \E s \in Slots : /\ slots[s].put = "stored"
                        /\ slots[s].putRes # hist.runs[1].content[slots[s].req.url]

\* C13: the message listener calls self.skipWaiting() exactly when the message
\* has data whose type is 'SKIP_WAITING', and then only the skip-waiting flag
\* is set; any other message changes nothing in the worker or its caches.  A
\* waiting version that got such a message while a previous version controls
\* the pages becomes active without those pages closing
C13_MessageListener ==
    /\ [][(hist'.msg # hist.msg) =>
            /\ hist'.msg.called <=> (hist'.msg.hasData /\ hist'.msg.type = "SKIP_WAITING")
            /\ skipWaiting' = (skipWaiting \/ hist'.msg.called)
            /\ UNCHANGED <<cacheOrder, cacheData, phase, hasActive, claimed, installs,
                           inst, act, slots, nslots, lastWriter>>]_vars
    /\ (phase = "installed" /\ hasActive /\ hist.msg.called)
          ~> (phase \in {"activating", "activated"} /\ hasActive)

C13_Witness ==
    /\ hist.msg.called
    /\ hist.msg.type = "SKIP_WAITING"
    /\ hasActive
    /\ phase = "activating"
    /\ inst.pc = "done"

C13_WitnessOther == hist.msg.handled /\ hist.msg.hasData /\ ~hist.msg.called /\ ~skipWaiting

\* C14: clients.claim() is requested only after caches.keys() has answered
\* and every caches.delete the handler started has finished: the claim is
\* never issued, nor pending, while one of those deletions is pending, and
\* when it is issued none of the enumerated stale caches exists any more
C14_ClaimAfterCleanup ==
    /\ (phase = "activating" /\ claimed) =>
          /\ act.pc \in {"claim", "done"}
          /\ act.pending = {}
          /\ \A i \in 1..Len(act.keys) : IsStale(act.keys[i]) => ~Exists(act.keys[i])
    /\ act.pc = "claim" => (claimed /\ act.pending = {})
    /\ act.pc = "done" => act.pending = {}
    /\ act.pc \in {"keys", "deleting"} => ~claimed
    /\ (act.pc = "failed" /\ claimed) => act.pending = {}

C14_Witness ==
    /\ act.pc = "claim"
    /\ claimed
    /\ \E i \in 1..Len(act.keys) : IsStale(act.keys[i])

\* C15: when caches.keys() or a caches.delete fails during activation, the
\* extended task does not reject, no deletion is left unawaited, and the
\* handler goes on to clients.claim()
C15_AsStated ==
    /\ act.promise # "rejected"
    /\ phase = "activated" /\ act.pc # "idle" => (claimed /\ act.pending = {})

\* C16 as stated: the skip-waiting signal is never issued while the store of
\* the core asset manifest is still in progress
C16_AsStated == inst.pc \in {"open", "addAll"} => ~skipWaiting

\* C16: the install listener issues the skip-waiting signal before it returns,
\* so the signal is already given all the while the store of the manifest is
\* in progress; the worker stays in the installing state until that store has
\* settled, and is activated only afterwards
C16_SignalBeforeStoreSettles ==
    /\ inst.pc \in {"open", "addAll"} => (skipWaiting /\ phase = "installing")
    /\ inst.pc = "done" => skipWaiting
    /\ (phase \in {"installed", "activating"} \/ act.promise = "pending") => inst.pc = "done"

C16_Witness == inst.pc = "addAll" /\ skipWaiting /\ phase = "installing"

\* C17: a failed background cache.put of staleWhileRevalidate is captured and
\* discarded: the caller still gets the cached response, or else the live
\* one, and the rejection is not left without a handler
C17_AsStated ==
    \A s \in Slots :
        (IsSwr(s) /\ slots[s].put = "failed") =>
            /\ slots[s].result = Resolved(IF Truthy(slots[s].cached) THEN slots[s].cached
                                          ELSE slots[s].netRes)
            /\ ~slots[s].unhandled

\* C18: the promise networkFirst hands to respondWith resolves with a
\* response and never rejects, whatever becomes of caches.open, of the two
\* lookups, of the put and of the fetch, and no rejection is left unhandled
C18_AsStated ==
    \A s \in Slots :
        IsNf(s) =>
            /\ slots[s].result.state # "rejected"
            /\ (slots[s].pc = "done" => (slots[s].result.state = "resolved"
                                         /\ Truthy(slots[s].result.value)))
            /\ ~slots[s].unhandled

\* every revalidation fetch that has settled succeeded with an OK response
AllFetchesOk ==
    \A t \in Slots :
        IsSwr(t) => \/ slots[t].net \in {"none", "pending"}
                    \/ slots[t].net = "resolved" /\ Ok(slots[t].netRes)

SameResource(s, t) ==
    IsSwr(s) /\ IsSwr(t) /\ slots[s].req = slots[t].req /\ slots[s].cache = slots[t].cache

\* C19 as stated: with every revalidation fetch OK, under any interleaving the
\* cached response served to the n-th request for a resource is the one the
\* network returned to the revalidation of the (n-1)-th request
C19_AsStated ==
    \A s \in Slots :
        (/\ s > 1
         /\ SameResource(s, s - 1)
         /\ AllFetchesOk
         /\ slots[s].lookedUp
         /\ Truthy(slots[s].cached))
            => /\ slots[s - 1].net = "resolved"
               /\ slots[s].result = Resolved(slots[s - 1].netRes)

\* the revalidation whose store into the cache of s completed last, 0 if none
LastStored(s) == lastWriter[slots[s].cache][slots[s].req.url]

\* C19: with every revalidation fetch OK, the cached response served to a
\* request is the one the network returned to the revalidation whose store
\* completed last before the lookup, which for requests handled one after
\* another is the previous request's; and the cache entry is at all times, so
\* also once all tasks have finished, the response of the revalidation whose
\* store completed last
C19_ServedLastStored ==
    /\ [][\A s \in Slots :
            (/\ IsSwr(s)
             /\ slots[s].pc = "match"
             /\ slots'[s].pc = "fetch"
             /\ AllFetchesOk
             /\ LastStored(s) # 0)
                => /\ SameResource(s, LastStored(s))
                   /\ slots'[s].result = Resolved(slots[LastStored(s)].netRes)]_vars
    /\ [](\A s \in Slots :
            (IsSwr(s) /\ AllFetchesOk /\ LastStored(s) # 0)
                => EntryFor(s) = slots[LastStored(s)].netRes)

C19_Witness ==
    \E s \in Slots :
        /\ s > 1
        /\ SameResource(s, s - 1)
        /\ AllFetchesOk
        /\ slots[s - 1].put = "stored"
        /\ slots[s - 1].netRes = OkResponse("b2")
        /\ slots[s].lookedUp
        /\ slots[s].result = Resolved(slots[s - 1].netRes)
        /\ slots[s].put = "none"

\* C20: in networkFirst, once the fetch has resolved, with any status, the
\* caller gets that very response and no cache lookup is made; a response
\* that is not OK is returned even when the request's entry or the shell is
\* cached, it starts no store and the step leaves every cache as it was
C20_LiveResponseWins ==
    /\ [](\A s \in Slots :
            (IsNf(s) /\ slots[s].net = "resolved") =>
                /\ slots[s].result = Resolved(slots[s].netRes)
                /\ ~slots[s].lookedUp
                /\ \A o \in slots[s].ops : o[1] # "match"
                /\ ~Ok(slots[s].netRes) => slots[s].put = "none")
    /\ [][\A s \in Slots :
            (IsNf(s) /\ slots[s].pc = "fetch" /\ slots'[s].net = "resolved"
                     /\ ~Ok(slots'[s].netRes))
                => /\ UNCHANGED <<cacheOrder, cacheData>>
                   /\ slots'[s].put = "none"
                   /\ slots'[s].result = Resolved(slots'[s].netRes)]_vars

C20_Witness ==
    \E s \in Slots :
        /\ IsNf(s)
        /\ slots[s].net = "resolved"
        /\ ~Ok(slots[s].netRes)
        /\ slots[s].result = Resolved(slots[s].netRes)
        /\ Truthy(EntryFor(s))
        /\ Ok(EntryFor(s))
        /\ Truthy(CachesMatch(ShellKey))

=============================================================================
